---------------------------- MODULE Spec2Model ----------------------------
(***************************************************************************)
(* Model of visualize.py (tg-stories-viewers-profiler): build_dataset,     *)
(* which loads one CSV of viewer rows per story, derives the population    *)
(* gap thresholds, classifies the target viewer's engagement per story and *)
(* resolves the viewer's name, followed by the landmark positioning loop   *)
(* of plot_results.                                                        *)
(*                                                                         *)
(* Representation choices:                                                 *)
(*  - a datetime is an integer number of seconds; datetime.min (the        *)
(*    sentinel of an empty story) is DatetimeMin, below every view time;   *)
(*  - a Python dict is a sequence of <<key, value>> pairs in insertion     *)
(*    order with unique keys;                                              *)
(*  - Optional[x] is <<>> (None) or <<x>>;                                  *)
(*  - the float engagement values 0, 0.5, 0.75, 1 are kept in hundredths;  *)
(*  - a float x position is an exact fraction <<numerator, denominator>>.  *)
(***************************************************************************)
EXTENDS Integers, Sequences, FiniteSets, TLC

VARIABLES
    csv_files,            \* per story (sorted by numeric key): the CSV's rows
    target_user_id,       \* CLI argument user_id
    landmarks,            \* CLI -m arguments: the landmark datetimes
    pc,                   \* position in main(): build_dataset, then plot_results
    story_views,          \* list[dict[user_id -> view datetime]]
    creation_times,       \* list[datetime]
    gap_seconds,          \* list[int]
    threshold_skip,
    threshold_full,
    y_values,             \* list of engagement values
    latencies,            \* list of Optional[int]
    user_full_name,
    user_username,
    landmark_x_positions  \* list of x positions

vars == <<csv_files, target_user_id, landmarks, pc, story_views, creation_times,
          gap_seconds, threshold_skip, threshold_full, y_values, latencies,
          user_full_name, user_username, landmark_x_positions>>

-----------------------------------------------------------------------------
(* Bounds of the explored inputs *)

\* general family: up to MaxStories stories viewed by the viewers of Uids
MaxStories == 2
MaxTime == 4
\* single-viewer family: one viewer across up to ChainStories stories
ChainStories == 4
ChainTime == 4
\* population family: PopViewers viewers who all saw the first of two stories
PopViewers == 5
PopTime == 4
\* name family: up to NmMaxStories stories of raw rows with varying names
NmMaxStories == 2
\* landmark family: up to LmMaxStories stories, each empty or seen once
LmMaxStories == 4
LmMaxTime == 4

Uids == {1, 2}
ChainViewers == {1}
LmViewers == {2}
NmRowCounts == 0..2
LmCounts == 0..1

-----------------------------------------------------------------------------
(* Program constants *)

DatetimeMin == 0
DefaultSkip == 30
DefaultFull == 60
NotViewed == 0
SwipedPast == 50
PartiallyWatched == 75
WatchedFully == 100

None == <<>>
Some(x) == <<x>>

-----------------------------------------------------------------------------
(* Python dict, insertion ordered *)

DictHas(d, k) == \E i \in DOMAIN d : d[i][1] = k

DictGet(d, k) ==
    IF DictHas(d, k)
    THEN Some(d[CHOOSE i \in DOMAIN d : d[i][1] = k][2])
    ELSE None

DictSet(d, k, v) ==
    IF DictHas(d, k)
    THEN [i \in DOMAIN d |-> IF d[i][1] = k THEN <<k, v>> ELSE d[i]]
    ELSE Append(d, <<k, v>>)

DictValues(d) == {d[i][2] : i \in DOMAIN d}

MinOf(S) == CHOOSE m \in S : \A x \in S : m <= x
MaxOf(S) == CHOOSE m \in S : \A x \in S : m >= x

-----------------------------------------------------------------------------
(* read_story_csv: rows whose user_id or date does not parse are skipped *)

read_story_csv(rows) == SelectSeq(rows, LAMBDA r : r.wellformed)

-----------------------------------------------------------------------------
(* build_dataset, loading loop *)

RECURSIVE UserToTimeFrom(_, _)
UserToTimeFrom(rows, d) ==
    IF rows = <<>> THEN d
    ELSE UserToTimeFrom(Tail(rows), DictSet(d, Head(rows).user_id, Head(rows).date))

UserToTime(rows) == UserToTimeFrom(read_story_csv(rows), <<>>)

CreationTimeLatest(user_to_time) ==
    IF user_to_time = <<>> THEN DatetimeMin ELSE MaxOf(DictValues(user_to_time))

CreationTime(user_to_time) ==
    IF user_to_time = <<>> THEN DatetimeMin ELSE MinOf(DictValues(user_to_time))

StoryViewsSkipEmpty(files) ==
    SelectSeq([i \in DOMAIN files |-> UserToTime(files[i])], LAMBDA d : d # <<>>)

StoryViews(files) == [i \in DOMAIN files |-> UserToTime(files[i])]

CreationTimes(views) == [i \in DOMAIN views |-> CreationTime(views[i])]

-----------------------------------------------------------------------------
(* build_dataset, gap distribution *)

KeepGapNonNegative(diff) == diff >= 0

KeepGap(diff) == diff > 0

RECURSIVE PairGaps(_, _)
PairGaps(cur_items, nxt_story) ==
    IF cur_items = <<>> THEN <<>>
    ELSE LET uid == Head(cur_items)[1]
             cur_time == Head(cur_items)[2]
             nxt_time == DictGet(nxt_story, uid)
             rest == PairGaps(Tail(cur_items), nxt_story)
         IN  IF nxt_time = None THEN rest
             ELSE IF KeepGap(nxt_time[1] - cur_time)
                  THEN <<nxt_time[1] - cur_time>> \o rest
                  ELSE rest

RECURSIVE GapsFrom(_, _)
GapsFrom(views, idx) ==
    IF idx + 1 > Len(views) - 1 THEN <<>>
    ELSE PairGaps(views[idx + 1], views[idx + 2]) \o GapsFrom(views, idx + 1)

GapSeconds(views) == GapsFrom(views, 0)

-----------------------------------------------------------------------------
(* build_dataset, percentile thresholds *)

RECURSIVE Insert(_, _)
Insert(x, s) ==
    IF s = <<>> THEN <<x>>
    ELSE IF x <= Head(s) THEN <<x>> \o s
    ELSE <<Head(s)>> \o Insert(x, Tail(s))

RECURSIVE SortedFrom(_)
SortedFrom(s) == IF s = <<>> THEN <<>> ELSE Insert(Head(s), SortedFrom(Tail(s)))

Unsorted(s) == s

Sorted(s) == SortedFrom(s)

P20IdxAs80(n) == (n * 80) \div 100

P20Idx(n) == (n * 20) \div 100

P80Idx(n) == (n * 80) \div 100

\* list indices are 0-based in the source, 1-based here
ThresholdSkip(gaps) ==
    IF gaps # <<>> THEN Sorted(gaps)[P20Idx(Len(gaps)) + 1] ELSE DefaultSkip

ThresholdFull(gaps) ==
    IF gaps # <<>> THEN Sorted(gaps)[P80Idx(Len(gaps)) + 1] ELSE DefaultFull

-----------------------------------------------------------------------------
(* build_dataset, classification of the target viewer *)

UserViews(views, uid) == [i \in DOMAIN views |-> DictGet(views[i], uid)]

\* 0-based idx
NextGap(user_views, idx) ==
    IF idx + 1 < Len(user_views) /\ user_views[idx + 2] # None
    THEN Some(user_views[idx + 2][1] - user_views[idx + 1][1])
    ELSE None

EngagementFullFirst(gap, skip, full) ==
    IF gap = None THEN WatchedFully
    ELSE IF gap[1] >= full THEN WatchedFully
    ELSE IF gap[1] <= skip THEN SwipedPast
    ELSE PartiallyWatched

Engagement(gap, skip, full) ==
    IF gap = None THEN WatchedFully
    ELSE IF gap[1] <= skip THEN SwipedPast
    ELSE IF gap[1] >= full THEN WatchedFully
    ELSE PartiallyWatched

Latencies(creations, user_views) ==
    [i \in DOMAIN user_views |->
        IF user_views[i] = None THEN None
        ELSE Some(user_views[i][1] - creations[i])]

YValues(user_views, skip, full) ==
    [i \in DOMAIN user_views |->
        IF user_views[i] = None THEN NotViewed
        ELSE Engagement(NextGap(user_views, i - 1), skip, full)]

-----------------------------------------------------------------------------
(* build_dataset, name and handle of the target viewer *)

\* the inner loop: the first row of one CSV with the target's id, if any
FirstRowOf(rows, uid) ==
    LET hits == {i \in DOMAIN rows : rows[i].user_id = uid}
    IN  IF hits = {} THEN None ELSE Some(rows[MinOf(hits)])

\* the outer loop from file idx (1-based) on, info = <<full_name, username>>
RECURSIVE UserInfoFrom(_, _, _, _)
UserInfoFrom(files, uid, idx, info) ==
    IF idx > Len(files) THEN info
    ELSE LET hit == FirstRowOf(read_story_csv(files[idx]), uid)
             now == IF hit = None THEN info
                    ELSE <<hit[1].full_name, hit[1].username>>
         IN  IF now[1] # "" THEN now ELSE UserInfoFrom(files, uid, idx + 1, now)

UserInfoAnyRow(files, uid) ==
    LET nonempty == {i \in DOMAIN files : read_story_csv(files[i]) # <<>>}
    IN  IF nonempty = {} THEN <<"", "">>
        ELSE LET r == read_story_csv(files[MinOf(nonempty)])[1]
             IN  <<r.full_name, r.username>>

UserInfo(files, uid) == UserInfoFrom(files, uid, 1, <<"", "">>)

-----------------------------------------------------------------------------
(* plot_results, x position of a landmark *)

\* the for loop over adjacent creation times from pair idx (0-based) on
RECURSIVE ScanStrict(_, _, _)
ScanStrict(creations, when, idx) ==
    IF idx + 1 > Len(creations) - 1 THEN <<2 * Len(creations) - 1, 2>>
    ELSE LET start == creations[idx + 1]
             end == creations[idx + 2]
         IN  IF start < when /\ when < end
             THEN <<idx * (end - start) + (when - start), end - start>>
             ELSE ScanStrict(creations, when, idx + 1)

RECURSIVE ScanBrackets(_, _, _)
ScanBrackets(creations, when, idx) ==
    IF idx + 1 > Len(creations) - 1 THEN <<2 * Len(creations) - 1, 2>>
    ELSE LET start == creations[idx + 1]
             end == creations[idx + 2]
         IN  IF start <= when /\ when <= end
             THEN IF end = start
                  THEN <<2 * idx + 1, 2>>
                  ELSE <<idx * (end - start) + (when - start), end - start>>
             ELSE ScanBrackets(creations, when, idx + 1)

BracketStrict(creations, when) == ScanStrict(creations, when, 0)

Bracket(creations, when) == ScanBrackets(creations, when, 0)

LandmarkXStrictBounds(creations, when) ==
    IF when < creations[1] THEN <<-1, 2>>
    ELSE IF when > creations[Len(creations)] THEN <<2 * Len(creations) - 1, 2>>
    ELSE Bracket(creations, when)

LandmarkX(creations, when) ==
    IF when <= creations[1] THEN <<-1, 2>>
    ELSE IF when >= creations[Len(creations)] THEN <<2 * Len(creations) - 1, 2>>
    ELSE Bracket(creations, when)

-----------------------------------------------------------------------------
(* Inputs *)

FullNameOf(uid) == IF uid = 1 THEN "Ann A" ELSE "Bob B"

UsernameOf(uid) == IF uid = 1 THEN "ann" ELSE "bob"

Row(uid, d) ==
    [user_id |-> uid, full_name |-> FullNameOf(uid), username |-> UsernameOf(uid),
     date |-> d, wellformed |-> TRUE]

\* main.py writes each story's viewers sorted by view date
RECURSIVE InsertRow(_, _)
InsertRow(r, s) ==
    IF s = <<>> THEN <<r>>
    ELSE IF r.date < Head(s).date \/ (r.date = Head(s).date /\ r.user_id <= Head(s).user_id)
    THEN <<r>> \o s
    ELSE <<Head(s)>> \o InsertRow(r, Tail(s))

RECURSIVE RowsOf(_)
RowsOf(f) ==
    IF DOMAIN f = {} THEN <<>>
    ELSE LET u == MinOf(DOMAIN f)
         IN  InsertRow(Row(u, f[u]), RowsOf([v \in DOMAIN f \ {u} |-> f[v]]))

\* one story: each viewer of uids either absent or viewing at one of times
StoryChoices(uids, times) ==
    {RowsOf(f) : f \in UNION {[S -> times] : S \in SUBSET uids}}

SeqsUpTo(S, n) == UNION {[1..k -> S] : k \in 0..n}

\* raw rows of the name family: empty display name, changed name, another
\* viewer, and a row whose date does not parse
NameRows ==
    {[user_id |-> 1, full_name |-> "", username |-> "old", date |-> 1, wellformed |-> TRUE],
     [user_id |-> 1, full_name |-> "Ann A", username |-> "ann", date |-> 2, wellformed |-> TRUE],
     [user_id |-> 2, full_name |-> "Bob B", username |-> "", date |-> 1, wellformed |-> TRUE],
     [user_id |-> 1, full_name |-> "Zed Z", username |-> "zed", date |-> 3, wellformed |-> FALSE]}

NameStories == UNION {[1..k -> NameRows] : k \in NmRowCounts}

LandmarkTimes == DatetimeMin..(LmMaxTime + 1)

InitViews ==
    /\ csv_files \in SeqsUpTo(StoryChoices(Uids, 1..MaxTime), MaxStories)
    /\ target_user_id \in Uids
    /\ landmarks = <<>>

InitChain ==
    /\ csv_files \in SeqsUpTo(StoryChoices(ChainViewers, 1..ChainTime), ChainStories)
    /\ target_user_id \in ChainViewers
    /\ landmarks = <<>>

InitNames ==
    /\ csv_files \in SeqsUpTo(NameStories, NmMaxStories)
    /\ target_user_id \in Uids
    /\ landmarks = <<>>

InitLandmarks ==
    /\ csv_files \in SeqsUpTo(StoryChoices(LmViewers, 1..LmMaxTime), LmMaxStories)
    /\ target_user_id \in LmViewers
    /\ landmarks \in UNION {[1..k -> LandmarkTimes] : k \in LmCounts}

\* story 1 seen by everybody at PopStart, story 2 by any of them at any time
InitPopulation ==
    /\ csv_files \in
          {<<RowsOf([u \in 1..PopViewers |-> 1]), second>> :
              second \in StoryChoices(1..PopViewers, 1..PopTime)}
    /\ target_user_id \in ChainViewers
    /\ landmarks = <<>>

\* the three-story scenario: stories first seen at 1000, 1100 and 1500; the
\* target viewer 1 sees story 0 after 10 s, story 1 after 5 s, story 2 never
ScenarioFiles ==
    <<RowsOf(3 :> 1000 @@ 1 :> 1010), RowsOf(4 :> 1100 @@ 1 :> 1105), RowsOf(5 :> 1500)>>

InitScenario ==
    /\ csv_files = ScenarioFiles
    /\ target_user_id \in ChainViewers
    /\ landmarks = <<>>

Init ==
    /\ InitViews \/ InitChain \/ InitPopulation \/ InitNames \/ InitLandmarks
          \/ InitScenario
    /\ pc = "start"
    /\ story_views = <<>>
    /\ creation_times = <<>>
    /\ gap_seconds = <<>>
    /\ threshold_skip = DefaultSkip
    /\ threshold_full = DefaultFull
    /\ y_values = <<>>
    /\ latencies = <<>>
    /\ user_full_name = ""
    /\ user_username = ""
    /\ landmark_x_positions = <<>>

-----------------------------------------------------------------------------
(* Steps of main() *)

inputs == <<csv_files, target_user_id, landmarks>>

\* build_dataset: no CSV file at all ends the run
NoCsvFiles ==
    /\ pc = "start"
    /\ csv_files = <<>>
    /\ pc' = "exit"
    /\ UNCHANGED <<inputs, story_views, creation_times, gap_seconds, threshold_skip,
                   threshold_full, y_values, latencies, user_full_name,
                   user_username, landmark_x_positions>>

\* build_dataset: the loop over the CSV files
LoadStories ==
    /\ pc = "start"
    /\ csv_files # <<>>
    /\ story_views' = StoryViews(csv_files)
    /\ creation_times' = CreationTimes(StoryViews(csv_files))
    /\ pc' = "loaded"
    /\ UNCHANGED <<inputs, gap_seconds, threshold_skip, threshold_full, y_values,
                   latencies, user_full_name, user_username, landmark_x_positions>>

\* build_dataset: the gaps of all viewers between consecutive stories
GapDistribution ==
    /\ pc = "loaded"
    /\ gap_seconds' = GapSeconds(story_views)
    /\ pc' = "gaps"
    /\ UNCHANGED <<inputs, story_views, creation_times, threshold_skip,
                   threshold_full, y_values, latencies, user_full_name,
                   user_username, landmark_x_positions>>

\* build_dataset: sort the gaps in place and take the two thresholds
Thresholds ==
    /\ pc = "gaps"
    /\ gap_seconds' = IF gap_seconds # <<>> THEN Sorted(gap_seconds) ELSE gap_seconds
    /\ threshold_skip' = ThresholdSkip(gap_seconds)
    /\ threshold_full' = ThresholdFull(gap_seconds)
    /\ pc' = "thresholds"
    /\ UNCHANGED <<inputs, story_views, creation_times, y_values, latencies,
                   user_full_name, user_username, landmark_x_positions>>

\* build_dataset: latency and engagement of the target viewer per story
Classify ==
    /\ pc = "thresholds"
    /\ LET user_views == UserViews(story_views, target_user_id)
       IN  /\ latencies' = Latencies(creation_times, user_views)
           /\ y_values' = YValues(user_views, threshold_skip, threshold_full)
    /\ pc' = "classified"
    /\ UNCHANGED <<inputs, story_views, creation_times, gap_seconds, threshold_skip,
                   threshold_full, user_full_name, user_username,
                   landmark_x_positions>>

\* build_dataset: name and handle, then return to main()
RetrieveUserInfo ==
    /\ pc = "classified"
    /\ user_full_name' = UserInfo(csv_files, target_user_id)[1]
    /\ user_username' = UserInfo(csv_files, target_user_id)[2]
    /\ pc' = "plot"
    /\ UNCHANGED <<inputs, story_views, creation_times, gap_seconds, threshold_skip,
                   threshold_full, y_values, latencies, landmark_x_positions>>

\* plot_results: one iteration of the loop over the landmarks
PlotLandmark ==
    /\ pc = "plot"
    /\ Len(landmark_x_positions) < Len(landmarks)
    /\ landmark_x_positions' =
          Append(landmark_x_positions,
                 LandmarkX(creation_times, landmarks[Len(landmark_x_positions) + 1]))
    /\ UNCHANGED <<inputs, pc, story_views, creation_times, gap_seconds,
                   threshold_skip, threshold_full, y_values, latencies,
                   user_full_name, user_username>>

\* plot_results: all landmarks placed, the figure is saved
SavePlot ==
    /\ pc = "plot"
    /\ Len(landmark_x_positions) = Len(landmarks)
    /\ pc' = "done"
    /\ UNCHANGED <<inputs, story_views, creation_times, gap_seconds, threshold_skip,
                   threshold_full, y_values, latencies, user_full_name,
                   user_username, landmark_x_positions>>

Next ==
    \/ NoCsvFiles
    \/ LoadStories
    \/ GapDistribution
    \/ Thresholds
    \/ Classify
    \/ RetrieveUserInfo
    \/ PlotLandmark
    \/ SavePlot

Spec == Init /\ [][Next]_vars

-----------------------------------------------------------------------------
(* Vocabulary of the properties, read off the inputs and the loaded maps *)

Positions == {"start", "exit", "loaded", "gaps", "thresholds", "classified", "plot", "done"}
Gapped == pc \in {"gaps", "thresholds", "classified", "plot", "done"}
Thresholded == pc \in {"thresholds", "classified", "plot", "done"}
Classified == pc \in {"classified", "plot", "done"}
Returned == pc \in {"plot", "done"}

N == Len(csv_files)
Half(k) == <<2 * k - 1, 2>>
SameX(a, b) == a[1] * b[2] = b[1] * a[2]

\* the target's view of story i (1-based), None when not viewed
ViewOf(i) == DictGet(story_views[i], target_user_id)
Viewed(i) == DictHas(story_views[i], target_user_id)
\* the target's gap from story i to story i + 1 is defined
HasGap(i) == i + 1 <= Len(story_views) /\ Viewed(i) /\ Viewed(i + 1)
GapOf(i) == ViewOf(i + 1)[1] - ViewOf(i)[1]

ViewerIds == UNION {{story_views[i][j][1] : j \in DOMAIN story_views[i]} : i \in DOMAIN story_views}
\* <<i, u>>: viewer u is in the view maps of stories i and i + 1
CoViews ==
    {p \in (1..(Len(story_views) - 1)) \X ViewerIds :
        DictHas(story_views[p[1]], p[2]) /\ DictHas(story_views[p[1] + 1], p[2])}
DiffOf(p) == DictGet(story_views[p[1] + 1], p[2])[1] - DictGet(story_views[p[1]], p[2])[1]

Below(g, v) == Cardinality({i \in DOMAIN g : g[i] < v})
UpTo(g, v) == Cardinality({i \in DOMAIN g : g[i] <= v})
\* v is the element of rank k (0-based) of the ascending order of g
IsRank(g, v, k) == (\E i \in DOMAIN g : g[i] = v) /\ Below(g, v) <= k /\ k < UpTo(g, v)

\* the rows of story i as read, and the first row anywhere naming the target
TargetRows(i) ==
    {j \in DOMAIN read_story_csv(csv_files[i]) :
        read_story_csv(csv_files[i])[j].user_id = target_user_id}
StoriesWithTarget == {i \in DOMAIN csv_files : TargetRows(i) # {}}
FirstTargetRow ==
    LET i == MinOf(StoriesWithTarget)
    IN  read_story_csv(csv_files[i])[MinOf(TargetRows(i))]

NonMonotonic(c) == \E i \in 1..(Len(c) - 1) : c[i] > c[i + 1]
Between(c, w) == c[1] < w /\ w < c[Len(c)]
Brackets(c, w) == {i \in 1..(Len(c) - 1) : c[i] <= w /\ w <= c[i + 1]}
\* i - 1 + (w - start) / (end - start), or i - 1/2 when start = end
InBracket(c, w, i) ==
    IF c[i] = c[i + 1] THEN Half(i)
    ELSE <<(i - 1) * (c[i + 1] - c[i]) + (w - c[i]), c[i + 1] - c[i]>>
Placed == DOMAIN landmark_x_positions

-----------------------------------------------------------------------------
(* C1: once the target is classified there is exactly one engagement value
   and one latency per story, in story order (slot i is "not viewed" exactly
   when story i has no row of the target), each value is one of 0, 0.5, 0.75,
   1, and a latency is None exactly when the value is 0. *)
C1_ClassificationCoverage ==
    Classified =>
        /\ Len(y_values) = N
        /\ Len(latencies) = N
        /\ \A i \in 1..N :
              /\ y_values[i] \in {NotViewed, SwipedPast, PartiallyWatched, WatchedFully}
              /\ (latencies[i] = None) <=> (y_values[i] = NotViewed)
              /\ (y_values[i] = NotViewed) <=> (TargetRows(i) = {})

\* an empty story keeps its slot between two stories the target viewed
C1_Witness ==
    /\ pc = "done"
    /\ N >= 3
    /\ \E i \in 2..(N - 1) :
          /\ csv_files[i] = <<>>
          /\ y_values[i] = NotViewed
          /\ y_values[i - 1] # NotViewed
          /\ y_values[i + 1] # NotViewed

(* C2 as stated: every story the target viewed whose gap to the target's view
   of the next story is defined and >= full_threshold has engagement 1, the
   tie gap = skip_threshold = full_threshold included. *)
C2_TiesFavorFull ==
    Classified =>
        \A i \in 1..N :
            (HasGap(i) /\ GapOf(i) >= threshold_full) => y_values[i] = WatchedFully

(* C2 amended: with a defined gap, gap <= skip_threshold gives 0.5 (the tie
   gap = skip = full included, the skip test coming first), and gap >=
   full_threshold gives 1 only when also gap > skip_threshold. *)
C2_SkipTestFirst ==
    Classified =>
        \A i \in 1..N :
            HasGap(i) =>
                /\ GapOf(i) <= threshold_skip => y_values[i] = SwipedPast
                /\ (GapOf(i) >= threshold_full /\ GapOf(i) > threshold_skip)
                      => y_values[i] = WatchedFully

\* the three-story scenario: one population gap 95, thresholds 95 and 95
C2_Witness ==
    /\ pc = "done"
    /\ csv_files = ScenarioFiles
    /\ gap_seconds = <<95>>
    /\ threshold_skip = 95 /\ threshold_full = 95
    /\ GapOf(1) = 95
    /\ y_values = <<SwipedPast, WatchedFully, NotViewed>>
    /\ latencies = <<Some(10), Some(5), None>>

(* C3: the derived thresholds satisfy skip_threshold <= full_threshold, for
   a non-empty gap population and for the fallback alike. *)
C3_PercentileMonotonicity ==
    Thresholded => threshold_skip <= threshold_full

\* a population of several gaps whose two thresholds differ
C3_Witness ==
    /\ pc = "thresholds"
    /\ Len(gap_seconds) >= 3
    /\ threshold_skip < threshold_full

(* C4: after the gap pass every accumulated gap is > 0, and there is one gap
   per viewer and adjacent story pair with both views and a later second
   view: zero and negative differences and missing views add nothing. *)
C4_GapPositivity ==
    Gapped =>
        /\ \A i \in DOMAIN gap_seconds : gap_seconds[i] > 0
        /\ Len(gap_seconds) = Cardinality({p \in CoViews : DiffOf(p) > 0})
        /\ \A p \in CoViews :
              DiffOf(p) > 0 => \E i \in DOMAIN gap_seconds : gap_seconds[i] = DiffOf(p)

\* a zero, a negative and a positive difference in one pass
C4_Witness ==
    /\ pc = "gaps"
    /\ \E p \in CoViews : DiffOf(p) = 0
    /\ \E p \in CoViews : DiffOf(p) < 0
    /\ \E p \in CoViews : DiffOf(p) > 0
    /\ Len(gap_seconds) = 1

(* C5 as stated: a landmark at creation_times[0] is placed at -0.5 and a
   landmark at creation_times[N-1] at N - 0.5, for every N >= 1. *)
C5_BothBoundaries ==
    \A k \in Placed :
        /\ landmarks[k] = creation_times[1] => SameX(landmark_x_positions[k], <<-1, 2>>)
        /\ landmarks[k] = creation_times[N] => SameX(landmark_x_positions[k], Half(N))

(* C5 amended: a landmark at creation_times[0] is placed at -0.5; a landmark
   at creation_times[N-1] is placed at N - 0.5 when creation_times[N-1] >
   creation_times[0], and at -0.5 otherwise (N = 1 included). *)
C5_LowerBoundaryFirst ==
    \A k \in Placed :
        /\ landmarks[k] = creation_times[1] => SameX(landmark_x_positions[k], <<-1, 2>>)
        /\ landmarks[k] = creation_times[N] =>
              IF creation_times[N] > creation_times[1]
              THEN SameX(landmark_x_positions[k], Half(N))
              ELSE SameX(landmark_x_positions[k], <<-1, 2>>)

\* a landmark at the last creation time, later than the first, of 3 stories
C5_Witness ==
    /\ pc = "done"
    /\ N = 3
    /\ \E k \in Placed :
          /\ landmarks[k] = creation_times[N]
          /\ creation_times[N] > creation_times[1]
          /\ landmark_x_positions[k] = <<5, 2>>

(* C6: a defined view time of the target gives a latency >= 0, namely the
   view time minus the earliest view of that story, and never meets the
   sentinel creation time of an empty story. *)
C6_LatencyNonNegative ==
    Classified =>
        \A i \in 1..N :
            Viewed(i) =>
                /\ latencies[i] # None
                /\ latencies[i][1] >= 0
                /\ latencies[i][1] = ViewOf(i)[1] - creation_times[i]
                /\ \A u \in ViewerIds :
                      DictHas(story_views[i], u) =>
                          creation_times[i] <= DictGet(story_views[i], u)[1]
                /\ csv_files[i] # <<>>
                /\ creation_times[i] # DatetimeMin

\* the target views a story after its first viewer, another story is empty
C6_Witness ==
    /\ pc = "done"
    /\ \E i \in 1..N : Viewed(i) /\ latencies[i][1] > 0
    /\ \E i \in 1..N : csv_files[i] = <<>> /\ creation_times[i] = DatetimeMin
                          /\ latencies[i] = None

(* C7: when the target is in no story's view map, build_dataset still
   returns: N observations, all (0, None), and an empty name and handle. *)
C7_NeverObserved ==
    (\A i \in DOMAIN story_views : ~Viewed(i)) =>
        /\ Classified =>
              /\ Len(y_values) = N /\ Len(latencies) = N
              /\ \A i \in 1..N : y_values[i] = NotViewed /\ latencies[i] = None
        /\ Returned => user_full_name = "" /\ user_username = ""

\* other viewers are present, the target only in a row that does not parse
C7_Witness ==
    /\ pc = "done"
    /\ N >= 2
    /\ \A i \in 1..N : ~Viewed(i) /\ story_views[i] # <<>>
    /\ \E i \in 1..N : \E j \in DOMAIN csv_files[i] :
          csv_files[i][j].user_id = target_user_id
    /\ y_values = [i \in 1..N |-> NotViewed]
    /\ user_full_name = "" /\ user_username = ""

(* C8: a non-empty population of n gaps gives skip_threshold = the element of
   rank floor(n*20/100) and full_threshold = the element of rank
   floor(n*80/100) of the ascending order, both ranks within 0..n-1; an empty
   population gives exactly 30 and 60. *)
C8_NearestRank ==
    Thresholded =>
        LET n == Len(gap_seconds)
        IN  IF n = 0
            THEN threshold_skip = 30 /\ threshold_full = 60
            ELSE /\ (n * 20) \div 100 \in 0..(n - 1)
                 /\ (n * 80) \div 100 \in 0..(n - 1)
                 /\ \A i \in 1..(n - 1) : gap_seconds[i] <= gap_seconds[i + 1]
                 /\ IsRank(gap_seconds, threshold_skip, (n * 20) \div 100)
                 /\ IsRank(gap_seconds, threshold_full, (n * 80) \div 100)
                 /\ threshold_skip = gap_seconds[(n * 20) \div 100 + 1]
                 /\ threshold_full = gap_seconds[(n * 80) \div 100 + 1]

\* five gaps: ranks 1 and 4, the skip threshold is not the smallest gap
C8_Witness ==
    /\ pc = "thresholds"
    /\ Len(gap_seconds) = 5
    /\ gap_seconds[1] < gap_seconds[2]
    /\ threshold_skip = gap_seconds[2]
    /\ threshold_full = gap_seconds[5]
    /\ threshold_skip < threshold_full

\* the creation-time sequences of the landmark family
LmCreationSeqs ==
    {CreationTimes(StoryViews(f)) :
        f \in SeqsUpTo(StoryChoices(LmViewers, 1..LmMaxTime), LmMaxStories) \ {<<>>}}

(* C9 as stated: there are a non-monotonic creation-time sequence and a
   timestamp strictly between its first and last element for which no
   adjacent pair brackets the timestamp, so that the position is the
   fallback N - 0.5. *)
C9_FallbackOccurs ==
    \E c \in LmCreationSeqs : \E w \in LandmarkTimes :
        /\ NonMonotonic(c)
        /\ Between(c, w)
        /\ Brackets(c, w) = {}
        /\ LandmarkX(c, w) = Half(Len(c))
        /\ pc \in Positions   \* wherever the run is: the statement is about inputs

(* C9 amended: for every creation-time sequence, non-monotonic ones included,
   a timestamp strictly between creation_times[0] and creation_times[N-1] is
   bracketed by some adjacent pair; the position comes from the first such
   pair (i + frac, below N - 0.5) and the fallback is never taken. *)
C9_AlwaysBracketed ==
    \A k \in Placed :
        Between(creation_times, landmarks[k]) =>
            /\ Brackets(creation_times, landmarks[k]) # {}
            /\ landmark_x_positions[k] =
                  InBracket(creation_times, landmarks[k],
                            MinOf(Brackets(creation_times, landmarks[k])))
            /\ ~SameX(landmark_x_positions[k], Half(N))

\* an empty story's sentinel between two stories, the landmark between them
C9_Witness ==
    /\ pc = "done"
    /\ N = 3
    /\ creation_times[2] = DatetimeMin
    /\ NonMonotonic(creation_times)
    /\ \E k \in Placed :
          /\ Between(creation_times, landmarks[k])
          /\ ~(creation_times[1] <= landmarks[k] /\ landmarks[k] <= creation_times[2])
          /\ landmark_x_positions[k] = InBracket(creation_times, landmarks[k], 2)

(* C10: the returned name and handle are those of the first row, in story
   order, that names the target, also when that row's display name is
   empty; both are empty when no row names the target. *)
C10_FirstOccurrence ==
    Returned =>
        IF StoriesWithTarget = {}
        THEN user_full_name = "" /\ user_username = ""
        ELSE /\ user_full_name = FirstTargetRow.full_name
             /\ user_username = FirstTargetRow.username

=============================================================================
